---- MODULE Spec2Model ----
(***************************************************************************)
(* A model of the simple-json2 parser: the Input implementation for &str   *)
(* and the generic combinators of src/src/parser.rs, and the JSON grammar  *)
(* rules and the NumberValue conversion of src/src/json.rs.                *)
(*                                                                         *)
(* A char is its Unicode code point.  A &str is the sequence of its chars; *)
(* its UTF-8 bytes are derived from the code points (Utf8Len).  A parser   *)
(* type (Concat<P, P2>, OneOf<P, P2>, a rule struct, ...) is a record      *)
(* naming its kind and its type parameters, and Parse interprets it the    *)
(* way the trait method Parser::parse of that type runs.  Every result     *)
(* carries the tree of the parse calls made to compute it, so that the     *)
(* positions at which sub-parsers were attempted can be stated.            *)
(***************************************************************************)
EXTENDS Integers, Sequences, FiniteSets, TLC

\* ------------------------------------------------------------------ chars

\* The code points of the chars the grammar and the inputs use.  The keys
\* "eacute" and "euro" name U+00E9 and U+20AC (2 and 3 bytes in UTF-8).
Ord ==
  (" " :> 32) @@ ("\r" :> 13) @@ ("\n" :> 10) @@ ("\t" :> 9) @@
  ("\"" :> 34) @@ ("+" :> 43) @@ ("," :> 44) @@ ("-" :> 45) @@ ("." :> 46) @@
  ("/" :> 47) @@ (":" :> 58) @@ ("[" :> 91) @@ ("\\" :> 92) @@ ("]" :> 93) @@
  ("{" :> 123) @@ ("}" :> 125) @@
  ("0" :> 48) @@ ("1" :> 49) @@ ("2" :> 50) @@ ("3" :> 51) @@ ("4" :> 52) @@
  ("5" :> 53) @@ ("6" :> 54) @@ ("7" :> 55) @@ ("8" :> 56) @@ ("9" :> 57) @@
  ("A" :> 65) @@ ("B" :> 66) @@ ("C" :> 67) @@ ("D" :> 68) @@ ("E" :> 69) @@
  ("F" :> 70) @@
  ("a" :> 97) @@ ("b" :> 98) @@ ("c" :> 99) @@ ("d" :> 100) @@ ("e" :> 101) @@
  ("f" :> 102) @@ ("l" :> 108) @@ ("n" :> 110) @@ ("r" :> 114) @@
  ("s" :> 115) @@ ("t" :> 116) @@ ("u" :> 117) @@ ("x" :> 120) @@
  ("eacute" :> 233) @@ ("euro" :> 8364)

\* The &str written as the tuple s of its chars.
Str(s) == [i \in 1..Len(s) |-> Ord[s[i]]]

\* char::len_utf8
Utf8Len(c) ==
  IF c < 128 THEN 1 ELSE IF c < 2048 THEN 2 ELSE IF c < 65536 THEN 3 ELSE 4

\* char::to_digit(radix) for radix 10 and 16; -1 is None
ToDigit(c, radix) ==
  IF c >= Ord["0"] /\ c <= Ord["9"] THEN c - Ord["0"]
  ELSE IF radix = 16 /\ c >= Ord["a"] /\ c <= Ord["f"] THEN c - Ord["a"] + 10
  ELSE IF radix = 16 /\ c >= Ord["A"] /\ c <= Ord["F"] THEN c - Ord["A"] + 10
  ELSE -1

\* u32 -> char (char::try_from): every code point but the surrogates
IsScalarValue(v) == v >= 0 /\ v <= 1114111 /\ ~(v >= 55296 /\ v <= 57343)

RECURSIVE BitOr(_, _)
\* a | b on unsigned integers
BitOr(a, b) ==
  IF a = 0 THEN b
  ELSE IF b = 0 THEN a
  ELSE (IF a % 2 = 1 \/ b % 2 = 1 THEN 1 ELSE 0) + 2 * BitOr(a \div 2, b \div 2)

RECURSIVE Pow(_, _)
Pow(b, n) == IF n = 0 THEN 1 ELSE b * Pow(b, n - 1)

\* a << n on u32 (the operands used never reach bit 32)
Shl(a, n) == a * Pow(2, n)

\* --------------------------------------------------- Position and Error

\* SimplePosition::default(): nothing consumed
StartPos == [index |-> 0, line |-> 0, column |-> 0]

\* SimplePosition::next(c): one char consumed; a newline starts a new line
PosNext(pos, c) ==
  IF c = Ord["\n"]
  THEN [index |-> pos.index + 1, line |-> pos.line + 1, column |-> 0]
  ELSE [index |-> pos.index + 1, line |-> pos.line, column |-> pos.column + 1]

\* Error::add_reason: the trail with one more (position, reason) entry, last
AddReason(e, pos, reason) == Append(e, [position |-> pos, reason |-> reason])

\* Result values.  kids: the trees of the parse calls made.
Ok(out, pos, kids) == [ok |-> TRUE, out |-> out, pos |-> pos, kids |-> kids]
Err(e, kids) == [ok |-> FALSE, err |-> e, kids |-> kids]

\* ------------------------------------------------------ impl Input for &str

\* <&str as Input>::error_at
InputErrorAt(pos, reason) == <<[position |-> pos, reason |-> reason]>>

\* <&str as Input>::next: self.chars().nth(pos.index())
InputNext(input, pos) ==
  IF pos.index < Len(input)
  THEN Ok(input[pos.index + 1], PosNext(pos, input[pos.index + 1]), <<>>)
  ELSE Err(InputErrorAt(pos, "Out of bounds"), <<>>)

RECURSIVE ByteOffset(_, _)
\* The byte offset at which the char after the first k chars of input starts.
ByteOffset(input, k) ==
  IF k = 0 THEN 0 ELSE ByteOffset(input, k - 1) + Utf8Len(input[k])

\* str::is_char_boundary
IsCharBoundary(input, b) == \E k \in 0..Len(input) : ByteOffset(input, k) = b

\* The number of chars before byte offset b, a char boundary.
CharsBefore(input, b) == CHOOSE k \in 0..Len(input) : ByteOffset(input, k) = b

RECURSIVE PosFold(_, _)
\* for c in s.chars() { pos = pos.next(c) }
PosFold(pos, s) == IF s = <<>> THEN pos ELSE PosFold(PosNext(pos, Head(s)), Tail(s))

\* str::get(from..to) on byte offsets: None (<<"None">>) unless both ends are
\* char boundaries of the string
StrGet(input, from, to) ==
  IF IsCharBoundary(input, from) /\ IsCharBoundary(input, to)
  THEN <<"Some", SubSeq(input, CharsBefore(input, from) + 1, CharsBefore(input, to))>>
  ELSE <<"None">>

\* <&str as Input>::next_range: the range start.index()..start.index()+counts
\* is handed to str::get, which reads it as byte offsets
InputNextRange(input, start, counts) ==
  LET start_index == start.index
      s == StrGet(input, start_index, start_index + counts)
  IN  IF s[1] = "Some"
      THEN Ok(s[2], PosFold(start, s[2]), <<>>)
      ELSE Err(InputErrorAt(start, "Out of bounds"), <<>>)

\* -------------------------------------------------------------- parser types

ExpectChar(pred) == [k |-> "ExpectChar", pred |-> pred]
Null == [k |-> "Null"]
Concat(p, p2) == [k |-> "Concat", a |-> p, b |-> p2]
Concat3(p, p2, p3) == Concat(p, Concat(p2, p3))
OneOf(p, p2) == [k |-> "OneOf", a |-> p, b |-> p2]
OneOrMore(p) == [k |-> "OneOrMore", a |-> p]
ZeroOrOne(p) == OneOf(p, Null)
ZeroOrMore(p) == OneOf(OneOrMore(p), Null)
\* A struct the parsers! macro defines, by its name.
Rule(name) == [k |-> "Rule", name |-> name]
\* A struct with a hand-written impl Parser, by its name.
Struct(name) == [k |-> name]

\* Either::A(v), Either::B(v)
EitherA(v) == [tag |-> "A", v |-> v]
EitherB(v) == [tag |-> "B", v |-> v]
\* ()
Unit == <<>>

\* The literals! character classes: the predicate as the set of chars accepted.
WhitespaceChar == ExpectChar({Ord[" "], Ord["\r"], Ord["\n"], Ord["\t"]})
SignChar == ExpectChar({Ord["+"], Ord["-"]})
NegativeSignChar == ExpectChar({Ord["-"]})
EChar == ExpectChar({Ord["E"], Ord["e"]})
OneToNineChar == ExpectChar(Ord["1"]..Ord["9"])
DigitChar == ExpectChar(Ord["0"]..Ord["9"])
DotChar == ExpectChar({Ord["."]})
HexChar == ExpectChar((Ord["0"]..Ord["9"]) \cup (Ord["a"]..Ord["f"]) \cup (Ord["A"]..Ord["F"]))
DoubleQuoteChar == ExpectChar({Ord["\""]})
OpenCurlyBracketChar == ExpectChar({Ord["{"]})
CloseCurlyBracketChar == ExpectChar({Ord["}"]})
CommaChar == ExpectChar({Ord[","]})
OpenSquareBracketChar == ExpectChar({Ord["["]})
CloseSquareBracketChar == ExpectChar({Ord["]"]})

\* Whitespace repeating a sub-parser that succeeds without consuming.
Whitespace_Optional == ZeroOrMore(ZeroOrOne(WhitespaceChar))
Whitespace == ZeroOrMore(WhitespaceChar)
Sign == ZeroOrOne(SignChar)
Digits == OneOrMore(DigitChar)

PositiveInteger == Rule("PositiveInteger")
NegativeInteger == Rule("NegativeInteger")
Integer == Rule("Integer")
Fraction == Rule("Fraction")
Exponent == Rule("Exponent")
Number == Rule("Number")
Hex == Rule("Hex")
String == Rule("String")
Escape == Struct("Escape")
Character == Struct("Character")
Characters == ZeroOrMore(Character)
Member == Struct("Member")
Element == Struct("Element")
Value == Struct("Value")
Object == Struct("Object")
Members == Struct("Members")
Elements == Struct("Elements")
Array == Struct("Array")
Json == Element

\* The $type of each parsers! rule.
RuleType(name) ==
  CASE name = "PositiveInteger" -> OneOf(Concat(OneToNineChar, Digits), DigitChar)
    [] name = "NegativeInteger" -> Concat(NegativeSignChar, PositiveInteger)
    [] name = "Integer" -> OneOf(PositiveInteger, NegativeInteger)
    [] name = "Fraction" -> ZeroOrOne(Concat(DotChar, Digits))
    [] name = "Exponent" -> ZeroOrOne(Concat3(EChar, Sign, Digits))
    [] name = "Number" -> Concat3(Integer, Fraction, Exponent)
    [] name = "Hex" -> HexChar
    [] name = "String" -> Concat3(DoubleQuoteChar, Characters, DoubleQuoteChar)

\* ------------------------------------------------------------ parsers! bodies

RECURSIVE FoldDigits(_, _)
\* for c in cs { val *= 10; val += c.to_digit(10).unwrap() }
FoldDigits(val, cs) ==
  IF cs = <<>> THEN val ELSE FoldDigits(val * 10 + ToDigit(Head(cs), 10), Tail(cs))

PositiveIntegerBody(output) ==
  IF output.tag = "A"
  THEN FoldDigits(ToDigit(output.v[1], 10), output.v[2])
  ELSE ToDigit(output.v, 10)

NegativeIntegerBody(output) == -(output[2])

IntegerBody(output) == output.v

RECURSIVE StripZeros(_)
StripZeros(cs) ==
  IF cs # <<>> /\ Head(cs) = Ord["0"] THEN StripZeros(Tail(cs)) ELSE cs

\* FractionBody with the digit count taken after the leading zeros are gone.
FractionBody_NoLeadingZeros(output) ==
  IF output.tag = "A"
  THEN <<FoldDigits(0, output.v[2]), Len(StripZeros(output.v[2]))>>
  ELSE <<0, 0>>

FractionBody(output) ==
  IF output.tag = "A"
  THEN <<FoldDigits(0, output.v[2]), Len(output.v[2])>>
  ELSE <<0, 0>>

ExponentBody(output) ==
  IF output.tag = "A"
  THEN LET s == output.v[2][1]
           cs == output.v[2][2]
           mul == IF s.tag = "A" /\ s.v = Ord["-"] THEN -1 ELSE 1
       IN  FoldDigits(0, cs) * mul
  ELSE 0

NumberBody(output) ==
  [integer |-> output[1],
   fraction |-> output[2][1][1],
   fraction_length |-> output[2][1][2],
   exponent |-> output[2][2]]

HexBody(output) == ToDigit(output, 16)

StringBody(output) ==
  IF output[2][1].tag = "A" THEN output[2][1].v ELSE <<>>

\* The $body of each parsers! rule, applied to the output of its $type.
RuleBody(name, output) ==
  CASE name = "PositiveInteger" -> PositiveIntegerBody(output)
    [] name = "NegativeInteger" -> NegativeIntegerBody(output)
    [] name = "Integer" -> IntegerBody(output)
    [] name = "Fraction" -> FractionBody(output)
    [] name = "Exponent" -> ExponentBody(output)
    [] name = "Number" -> NumberBody(output)
    [] name = "Hex" -> HexBody(output)
    [] name = "String" -> StringBody(output)

\* JsonValue
JsonObject(v) == [type |-> "Object", v |-> v]
JsonArray(v) == [type |-> "Array", v |-> v]
JsonString(v) == [type |-> "String", v |-> v]
JsonNumber(v) == [type |-> "Number", v |-> v]
JsonBoolean(v) == [type |-> "Boolean", v |-> v]
JsonNull == [type |-> "Null"]

\* ---------------------------------------------------------------- parse

\* The record of one call: which parser, where it started, whether it
\* succeeded, where it ended (-1: it failed), and the calls it made.
Node(rule, current, r) ==
  [rule |-> rule, at |-> current.index, ok |-> r.ok,
   end |-> IF r.ok THEN r.pos.index ELSE -1, kids |-> r.kids]

\* The result of a call as its caller sees it, with the call's tree.
Done(rule, current, r) ==
  IF r.ok
  THEN [ok |-> TRUE, out |-> r.out, pos |-> r.pos, tree |-> Node(rule, current, r)]
  ELSE [ok |-> FALSE, err |-> r.err, tree |-> Node(rule, current, r)]

RECURSIVE Parse(_, _, _)

\* impl Parser for ExpectChar<P>
ExpectCharParse(pred, input, current) ==
  LET r == InputNext(input, current)
  IN  IF ~r.ok THEN Err(AddReason(r.err, current, "ExpectChar"), <<>>)
      ELSE IF r.out \in pred THEN Ok(r.out, r.pos, <<>>)
      ELSE Err(InputErrorAt(current, "ExpectChar"), <<>>)

\* impl Parser for Null
NullParse(input, current) == Ok(Unit, current, <<>>)

\* impl Parser for Concat<P, P2>
ConcatParse(p, p2, input, current) ==
  LET r1 == Parse(p, input, current)
  IN  IF ~r1.ok THEN Err(AddReason(r1.err, current, "Concat1"), <<r1.tree>>)
      ELSE LET r2 == Parse(p2, input, r1.pos)
           IN  IF ~r2.ok
               THEN Err(AddReason(r2.err, current, "Concat2"), <<r1.tree, r2.tree>>)
               ELSE Ok(<<r1.out, r2.out>>, r2.pos, <<r1.tree, r2.tree>>)

\* OneOfParse with the second sub-parser run where the first one failed.
OneOfParse_FailurePosition(p, p2, input, current) ==
  LET r1 == Parse(p, input, current)
  IN  IF r1.ok THEN Ok(EitherA(r1.out), r1.pos, <<r1.tree>>)
      ELSE LET r2 == Parse(p2, input, r1.err[1].position)
           IN  IF r2.ok
               THEN Ok(EitherB(r2.out), r2.pos, <<r1.tree, r2.tree>>)
               ELSE Err(AddReason(r2.err, current, "OneOf"), <<r1.tree, r2.tree>>)

\* impl Parser for OneOf<P, P2>
OneOfParse(p, p2, input, current) ==
  LET r1 == Parse(p, input, current)
  IN  IF r1.ok THEN Ok(EitherA(r1.out), r1.pos, <<r1.tree>>)
      ELSE LET r2 == Parse(p2, input, current)
           IN  IF r2.ok
               THEN Ok(EitherB(r2.out), r2.pos, <<r1.tree, r2.tree>>)
               ELSE Err(AddReason(r2.err, current, "OneOf"), <<r1.tree, r2.tree>>)

\* The tree entry of a loop of OneOrMore that was still running after more
\* iterations than the input has chars: the loop does not end.
LoopCut(pos) == [rule |-> "LoopCut", at |-> pos.index, ok |-> FALSE, end |-> -1, kids |-> <<>>]

RECURSIVE OneOrMoreLoop(_, _, _, _, _)
\* The loop of OneOrMore::parse, from pos with output_list collected so far.
OneOrMoreLoop(p, input, pos, output_list, kids) ==
  IF Len(output_list) > Len(input) + 1
  THEN Ok(output_list, pos, Append(kids, LoopCut(pos)))
  ELSE LET r == Parse(p, input, pos)
       IN  IF r.ok
           THEN OneOrMoreLoop(p, input, r.pos, Append(output_list, r.out), Append(kids, r.tree))
           ELSE Ok(output_list, pos, Append(kids, r.tree))

\* impl Parser for OneOrMore<P>
OneOrMoreParse(p, input, current) ==
  LET r == Parse(p, input, current)
  IN  IF ~r.ok THEN Err(AddReason(r.err, current, "OneOrMore"), <<r.tree>>)
      ELSE OneOrMoreLoop(p, input, r.pos, <<r.out>>, <<r.tree>>)

\* The impl Parser the parsers! macro generates for the rule $name.
RuleParse(name, input, current) ==
  LET r == Parse(RuleType(name), input, current)
  IN  IF ~r.ok THEN Err(AddReason(r.err, current, name), <<r.tree>>)
      ELSE Ok(RuleBody(name, r.out), r.pos, <<r.tree>>)

\* The escape letters that pass through: " \ / b f n r t
EscapeLetters ==
  {Ord["\""], Ord["\\"], Ord["/"], Ord["b"], Ord["f"], Ord["n"], Ord["r"], Ord["t"]}

\* (b1 as u32) << 24 | (b2 as u32) << 16 | (b3 as u32) << 8 | (b4 as u32)
EscapeByte(b1, b2, b3, b4) ==
  BitOr(BitOr(BitOr(Shl(b1, 24), Shl(b2, 16)), Shl(b3, 8)), b4)

\* impl Parser for Escape
EscapeParse(input, current) ==
  LET r == InputNext(input, current)
  IN  IF ~r.ok THEN Err(AddReason(r.err, current, "Escape"), <<>>)
      ELSE IF r.out \in EscapeLetters THEN Ok(r.out, r.pos, <<>>)
      ELSE IF r.out = Ord["u"] THEN
        LET h1 == Parse(Hex, input, r.pos)
        IN  IF ~h1.ok THEN Err(h1.err, <<h1.tree>>) ELSE
        LET h2 == Parse(Hex, input, h1.pos)
        IN  IF ~h2.ok THEN Err(h2.err, <<h1.tree, h2.tree>>) ELSE
        LET h3 == Parse(Hex, input, h2.pos)
        IN  IF ~h3.ok THEN Err(h3.err, <<h1.tree, h2.tree, h3.tree>>) ELSE
        LET h4 == Parse(Hex, input, h3.pos)
            kids == <<h1.tree, h2.tree, h3.tree, h4.tree>>
        IN  IF ~h4.ok THEN Err(h4.err, kids) ELSE
        LET byte == EscapeByte(h1.out, h2.out, h3.out, h4.out)
        IN  IF IsScalarValue(byte) THEN Ok(byte, h4.pos, kids)
            ELSE Err(InputErrorAt(current, "Escape"), kids)
      ELSE Err(InputErrorAt(current, "Escape"), <<>>)

\* impl Parser for Character
CharacterParse(input, current) ==
  LET r == InputNext(input, current)
  IN  IF ~r.ok THEN Err(AddReason(r.err, current, "Character"), <<>>)
      ELSE IF r.out = Ord["\\"] THEN
        LET e == Parse(Escape, input, r.pos)
        IN  IF e.ok THEN Ok(e.out, e.pos, <<e.tree>>) ELSE Err(e.err, <<e.tree>>)
      ELSE IF r.out = Ord["\""] THEN Err(InputErrorAt(current, "Character"), <<>>)
      ELSE Ok(r.out, r.pos, <<>>)

\* impl Parser for Member
MemberParse(input, current) ==
  LET w1 == Parse(Whitespace, input, current)
  IN  IF ~w1.ok THEN Err(w1.err, <<w1.tree>>) ELSE
  LET key == Parse(String, input, w1.pos)
  IN  IF ~key.ok THEN Err(key.err, <<w1.tree, key.tree>>) ELSE
  LET w2 == Parse(Whitespace, input, key.pos)
  IN  IF ~w2.ok THEN Err(w2.err, <<w1.tree, key.tree, w2.tree>>) ELSE
  LET c == InputNext(input, w2.pos)
      kids == <<w1.tree, key.tree, w2.tree>>
  IN  IF ~c.ok THEN Err(AddReason(c.err, current, "Member"), kids)
      ELSE IF c.out # Ord[":"]
      THEN Err(AddReason(InputErrorAt(c.pos, "Character"), current, "Member"), kids)
      ELSE
  LET value == Parse(Element, input, c.pos)
  IN  IF ~value.ok THEN Err(value.err, Append(kids, value.tree))
      ELSE Ok(<<key.out, value.out>>, value.pos, Append(kids, value.tree))

\* impl Parser for Element
ElementParse(input, current) ==
  LET w1 == Parse(Whitespace, input, current)
  IN  IF ~w1.ok THEN Err(w1.err, <<w1.tree>>) ELSE
  LET output == Parse(Value, input, w1.pos)
  IN  IF ~output.ok THEN Err(output.err, <<w1.tree, output.tree>>) ELSE
  LET w2 == Parse(Whitespace, input, output.pos)
      kids == <<w1.tree, output.tree, w2.tree>>
  IN  IF ~w2.ok THEN Err(w2.err, kids) ELSE Ok(output.out, w2.pos, kids)

\* impl Parser for Value
ValueParse(input, current) ==
  LET o == Parse(Object, input, current)
  IN  IF o.ok THEN Ok(JsonObject(o.out), o.pos, <<o.tree>>) ELSE
  LET a == Parse(Array, input, current)
  IN  IF a.ok THEN Ok(JsonArray(a.out), a.pos, <<o.tree, a.tree>>) ELSE
  LET s == Parse(String, input, current)
  IN  IF s.ok THEN Ok(JsonString(s.out), s.pos, <<o.tree, a.tree, s.tree>>) ELSE
  LET n == Parse(Number, input, current)
      tried == <<o.tree, a.tree, s.tree, n.tree>>
  IN  IF n.ok THEN Ok(JsonNumber(n.out), n.pos, tried) ELSE
  LET r4 == InputNextRange(input, current, 4)
      kids4 == Append(tried, Node("next_range", current, r4))
  IN  IF ~r4.ok THEN Err(r4.err, kids4)
      ELSE IF r4.out = Str(<<"n", "u", "l", "l">>) THEN Ok(JsonNull, r4.pos, kids4)
      ELSE IF r4.out = Str(<<"t", "r", "u", "e">>) THEN Ok(JsonBoolean(TRUE), r4.pos, kids4)
      ELSE
  LET r5 == InputNextRange(input, current, 5)
      kids5 == Append(kids4, Node("next_range", current, r5))
  IN  IF ~r5.ok THEN Err(r5.err, kids5)
      ELSE IF r5.out = Str(<<"f", "a", "l", "s", "e">>) THEN Ok(JsonBoolean(FALSE), r5.pos, kids5)
      ELSE Err(InputErrorAt(current, "Value"), kids5)

\* impl Parser for Object
ObjectParse(input, current) ==
  LET open == Parse(OpenCurlyBracketChar, input, current)
  IN  IF ~open.ok THEN Err(open.err, <<open.tree>>) ELSE
  LET output == Parse(OneOf(Members, Whitespace), input, open.pos)
  IN  IF ~output.ok THEN Err(output.err, <<open.tree, output.tree>>) ELSE
  LET close == Parse(CloseCurlyBracketChar, input, output.pos)
      kids == <<open.tree, output.tree, close.tree>>
  IN  IF ~close.ok THEN Err(close.err, kids)
      ELSE Ok(IF output.out.tag = "A" THEN output.out.v ELSE <<>>, close.pos, kids)

\* MembersResult as a map would keep the members: a member whose key comes
\* again later is dropped.
MembersResult_Merge(output, rest) ==
  LET all == IF rest.tag = "A"
             THEN <<output>> \o [i \in 1..Len(rest.v) |-> rest.v[i][2]]
             ELSE <<output>>
      Keep(i) == \A j \in (i + 1)..Len(all) : all[j][1] # all[i][1]
      F[i \in 0..Len(all)] ==
        IF i = 0 THEN <<>> ELSE IF Keep(i) THEN Append(F[i - 1], all[i]) ELSE F[i - 1]
  IN  F[Len(all)]

\* Members: result.push(output); result.extend(rest.into_iter().map(|(_, m)| m))
MembersResult(output, rest) ==
  IF rest.tag = "A" THEN <<output>> \o [i \in 1..Len(rest.v) |-> rest.v[i][2]]
  ELSE <<output>>

\* Elements: result.push(output); result.extend(rest.into_iter().map(|(_, m)| m))
ElementsResult(output, rest) ==
  IF rest.tag = "A" THEN <<output>> \o [i \in 1..Len(rest.v) |-> rest.v[i][2]]
  ELSE <<output>>

\* impl Parser for Members
MembersParse(input, current) ==
  LET output == Parse(Member, input, current)
  IN  IF ~output.ok THEN Err(output.err, <<output.tree>>) ELSE
  LET rest == Parse(ZeroOrMore(Concat(CommaChar, Member)), input, output.pos)
      kids == <<output.tree, rest.tree>>
  IN  IF ~rest.ok THEN Err(rest.err, kids)
      ELSE Ok(MembersResult(output.out, rest.out), rest.pos, kids)

\* impl Parser for Elements
ElementsParse(input, current) ==
  LET output == Parse(Element, input, current)
  IN  IF ~output.ok THEN Err(output.err, <<output.tree>>) ELSE
  LET rest == Parse(ZeroOrMore(Concat(CommaChar, Element)), input, output.pos)
      kids == <<output.tree, rest.tree>>
  IN  IF ~rest.ok THEN Err(rest.err, kids)
      ELSE Ok(ElementsResult(output.out, rest.out), rest.pos, kids)

\* impl Parser for Array
ArrayParse(input, current) ==
  LET open == Parse(OpenSquareBracketChar, input, current)
  IN  IF ~open.ok THEN Err(open.err, <<open.tree>>) ELSE
  LET res == Parse(Elements, input, open.pos)
  IN  IF ~res.ok THEN Err(res.err, <<open.tree, res.tree>>) ELSE
  LET close == Parse(CloseSquareBracketChar, input, res.pos)
      kids == <<open.tree, res.tree, close.tree>>
  IN  IF ~close.ok THEN Err(close.err, kids) ELSE Ok(res.out, close.pos, kids)

\* The name of a parser type in the trees.
Label(p) == IF p.k = "Rule" THEN p.name ELSE p.k

\* <P as Parser<I>>::parse(input, current)
Parse(p, input, current) ==
  Done(Label(p), current,
       CASE p.k = "ExpectChar" -> ExpectCharParse(p.pred, input, current)
         [] p.k = "Null" -> NullParse(input, current)
         [] p.k = "Concat" -> ConcatParse(p.a, p.b, input, current)
         [] p.k = "OneOf" -> OneOfParse(p.a, p.b, input, current)
         [] p.k = "OneOrMore" -> OneOrMoreParse(p.a, input, current)
         [] p.k = "Rule" -> RuleParse(p.name, input, current)
         [] p.k = "Escape" -> EscapeParse(input, current)
         [] p.k = "Character" -> CharacterParse(input, current)
         [] p.k = "Member" -> MemberParse(input, current)
         [] p.k = "Element" -> ElementParse(input, current)
         [] p.k = "Value" -> ValueParse(input, current)
         [] p.k = "Object" -> ObjectParse(input, current)
         [] p.k = "Members" -> MembersParse(input, current)
         [] p.k = "Elements" -> ElementsParse(input, current)
         [] p.k = "Array" -> ArrayParse(input, current))


\* ------------------------------------------------- NumberValue into f64

RECURSIVE Normalise(_)
\* The decimal mant * 10^exp10 with the trailing zeros of mant moved into
\* exp10, so that equal values are equal records.
Normalise(d) ==
  IF d.mant = 0 THEN [mant |-> 0, exp10 |-> 0]
  ELSE IF d.mant % 10 = 0 THEN Normalise([mant |-> d.mant \div 10, exp10 |-> d.exp10 + 1])
  ELSE d

\* impl Into<f64> for NumberValue, computed exactly:
\* (integer + fraction / 10^fraction_length) * 10^exponent
NumberValueInto(self) ==
  Normalise([mant |-> self.integer * Pow(10, self.fraction_length) + self.fraction,
             exp10 |-> self.exponent - self.fraction_length])

\* ------------------------------------------------------------ the inputs

\* The longest integer part and fractional part of the number literals
\* enumerated, the most members of the objects enumerated, and the largest
\* count handed to next_range.
MaxIntDigits == 2
MaxFracDigits == 2
MaxMembers == 2
MaxCounts == 5

DigitSeqs(alphabet, n) == UNION {[1..k -> alphabet] : k \in 1..n}

NoExp == [mark |-> <<>>, sign |-> <<>>, digits |-> <<>>]
Exp(mark, sign, digits) == [mark |-> mark, sign |-> sign, digits |-> digits]

\* Number literals [-]int[.digits][(e|E)[+|-]digits], by their parts.
IntParts == {<<"0">>} \cup {<<"7">> \o z : z \in {<<>>} \cup DigitSeqs({"0"}, MaxIntDigits - 1)}
FracParts == {<<>>} \cup DigitSeqs({"0", "7"}, MaxFracDigits)
ExpParts ==
  {NoExp, Exp(<<"e">>, <<>>, <<"2">>), Exp(<<"E">>, <<"+">>, <<"2">>),
   Exp(<<"e">>, <<"-">>, <<"2">>), Exp(<<"E">>, <<>>, <<"1", "0">>)}
Lit(neg, int, frac, exp) == [neg |-> neg, int |-> int, frac |-> frac, exp |-> exp]
\* -12.340e2
LitSpec == Lit(TRUE, <<"1", "2">>, <<"3", "4", "0">>, Exp(<<"e">>, <<>>, <<"2">>))
NumberLits ==
  {Lit(neg, int, frac, exp) :
     neg \in BOOLEAN, int \in IntParts, frac \in FracParts, exp \in ExpParts}
  \cup {LitSpec}

LitText(lit) ==
  (IF lit.neg THEN <<"-">> ELSE <<>>) \o lit.int
  \o (IF lit.frac = <<>> THEN <<>> ELSE <<".">> \o lit.frac)
  \o lit.exp.mark \o lit.exp.sign \o lit.exp.digits

RECURSIVE DigitsValue(_)
\* The number a run of decimal digits denotes.
DigitsValue(ds) ==
  IF ds = <<>> THEN 0
  ELSE DigitsValue(SubSeq(ds, 1, Len(ds) - 1)) * 10 + ToDigit(Ord[ds[Len(ds)]], 10)

LitSign(lit) == IF lit.neg THEN -1 ELSE 1
LitExponent(lit) ==
  (IF lit.exp.sign = <<"-">> THEN -1 ELSE 1) * DigitsValue(lit.exp.digits)

\* The decimal value the literal denotes.
DecimalValue(lit) ==
  Normalise([mant |-> LitSign(lit) * DigitsValue(lit.int \o lit.frac),
             exp10 |-> LitExponent(lit) - Len(lit.frac)])

\* Object texts {"k1":v1,...,"kn":vn}, by their members.
MemberKeys == {<<"a">>, <<"b">>}
MemberValues == {<<"1">>, <<"2">>, <<"n", "u", "l", "l">>}
MemberSeqs == UNION {[1..k -> MemberKeys \X MemberValues] : k \in 1..MaxMembers}

MemberText(m) == <<"\"">> \o m[1] \o <<"\"", ":">> \o m[2]

RECURSIVE MembersText(_)
MembersText(ms) ==
  IF Len(ms) = 1 THEN MemberText(ms[1])
  ELSE MembersText(SubSeq(ms, 1, Len(ms) - 1)) \o <<",">> \o MemberText(ms[Len(ms)])

ObjectText(ms) == <<"{">> \o MembersText(ms) \o <<"}">>

\* Strings "\uh1h2h3h4", by their four hex digits.
HexQuads == {"0", "D"} \X {"0", "8"} \X {"0", "4", "e"} \X {"0", "1", "A"}
HexText(h) == <<"\"", "\\", "u">> \o h \o <<"\"">>
\* The 16-bit value of four hex digits.
HexValue(h) ==
  ToDigit(Ord[h[1]], 16) * 4096 + ToDigit(Ord[h[2]], 16) * 256
  + ToDigit(Ord[h[3]], 16) * 16 + ToDigit(Ord[h[4]], 16)

\* Further texts.
TruncatedObject == <<"{", "\"", "a", "\"", ":">>
EmptyArray == <<"[", "]">>
NullAfterNonAscii == <<"[", "\"", "eacute", "\"", ",", "n", "u", "l", "l", "]">>
Texts ==
  {EmptyArray, TruncatedObject, NullAfterNonAscii,
   <<"{", "}">>,
   <<"[", "1">>,
   <<"eacute", "n", "u", "l", "l">>,
   <<"euro", "t", "r", "u", "e">>,
   <<"n", "u", "l", "l", "a", "b", "l", "e">>,
   <<"t", "r", "u", "e">>,
   <<"f", "a", "l", "s", "e">>,
   <<"[", "1", ",", "[", "2", "]", ",", "3", "]">>,
   <<"{", "\"", "a", "\"", ":", "{", "\"", "b", "\"", ":", "[", "1", ",", "2", "]", "}", "}">>,
   <<" ", "[", " ", "1", "\n", ",", "\t", "2", " ", "]", "\r">>,
   <<"{", " ", "\"", "a", "\"", " ", ":", " ", "1", " ", "}">>,
   <<"{", "\"", "a", "\"", " ", "1", "}">>,
   <<"\"", "a", "\\", "n", "b", "\"">>,
   <<"\"", "\\", "u", "0", "0", "4">>,
   <<"\"", "\\", "x", "\"">>,
   <<"\"", "\"">>,
   <<"1", ".">>,
   <<"1", "e", "+">>,
   <<"0", "1", "2">>,
   <<"x">>,
   <<>>}

\* --------------------------------------------------------- the state machine

\* doc: what the input was written from; input: the &str; cur: the position
\* the caller holds; op: the operation applied last ("none": none yet), arg:
\* its count argument; result: what it returned; value: the f64 of a parsed
\* number.
VARIABLES doc, input, cur, op, arg, result, value
vars == <<doc, input, cur, op, arg, result, value>>

Init ==
  /\ \/ \E lit \in NumberLits :
          doc = [kind |-> "number", lit |-> lit] /\ input = Str(LitText(lit))
     \/ \E ms \in MemberSeqs :
          doc = [kind |-> "object", members |-> ms] /\ input = Str(ObjectText(ms))
     \/ \E h \in HexQuads :
          doc = [kind |-> "hex", hex |-> h] /\ input = Str(HexText(h))
     \/ \E t \in Texts :
          doc = [kind |-> "text", text |-> t] /\ input = Str(t)
  /\ cur = StartPos
  /\ op = "none"
  /\ arg = 0
  /\ result = <<>>
  /\ value = <<>>

\* The caller reads one char with input.next(cur) and keeps the position.
Advance ==
  /\ op = "none"
  /\ InputNext(input, cur).ok
  /\ cur' = InputNext(input, cur).pos
  /\ UNCHANGED <<doc, input, op, arg, result, value>>

\* input.next_range(cur, n)
NextRange ==
  /\ op = "none"
  /\ \E n \in 1..MaxCounts :
       /\ arg' = n
       /\ result' = InputNextRange(input, cur, n)
  /\ op' = "next_range"
  /\ UNCHANGED <<doc, input, cur, value>>

\* <Json as Parser>::parse(&input, cur)
JsonParse ==
  /\ op = "none"
  /\ result' = Parse(Json, input, cur)
  /\ op' = "Json"
  /\ UNCHANGED <<doc, input, cur, arg, value>>

\* <Number as Parser>::parse(&input, cur)
NumberParse ==
  /\ op = "none"
  /\ result' = Parse(Number, input, cur)
  /\ op' = "Number"
  /\ UNCHANGED <<doc, input, cur, arg, value>>

\* <String as Parser>::parse(&input, cur)
StringParse ==
  /\ op = "none"
  /\ result' = Parse(String, input, cur)
  /\ op' = "String"
  /\ UNCHANGED <<doc, input, cur, arg, value>>

\* let v: f64 = number.into(), on the NumberValue just parsed
IntoF64 ==
  /\ op = "Number"
  /\ result.ok
  /\ value' = NumberValueInto(result.out)
  /\ op' = "into"
  /\ UNCHANGED <<doc, input, cur, arg, result>>

Next == Advance \/ NextRange \/ JsonParse \/ NumberParse \/ StringParse \/ IntoF64

Spec == Init /\ [][Next]_vars

\* ------------------------------------------------------------ the claims

ParseOps == {"Json", "Number", "String"}

RECURSIVE Nodes(_)
\* Every call of a tree.
Nodes(t) == {t} \cup UNION {Nodes(t.kids[i]) : i \in 1..Len(t.kids)}

Max(S) == CHOOSE x \in S : \A y \in S : y <= x

RECURSIVE ValueDepth(_)
\* The most calls of Value::parse nested in one another in a tree.
ValueDepth(t) ==
  (IF t.rule = "Value" THEN 1 ELSE 0)
  + Max({0} \cup {ValueDepth(t.kids[i]) : i \in 1..Len(t.kids)})

RECURSIVE NextN(_, _, _)
\* n successive next() calls from pos: the chars read and the position reached.
NextN(str, pos, n) ==
  IF n = 0 THEN Ok(<<>>, pos, <<>>)
  ELSE LET r == InputNext(str, pos)
       IN  IF ~r.ok THEN r
           ELSE LET rest == NextN(str, r.pos, n - 1)
                IN  IF ~rest.ok THEN rest ELSE Ok(<<r.out>> \o rest.out, rest.pos, <<>>)

Reasons(e) == {e[i].reason : i \in 1..Len(e)}

\* C1: parsing the input [] with the Json rule from the start position
\* succeeds, yields an Array of zero elements and ends after the ].
C1_EmptyArray ==
  (op = "Json" /\ doc.kind = "text" /\ doc.text = EmptyArray /\ cur = StartPos)
    => (result.ok /\ result.out = JsonArray(<<>>) /\ result.pos.index = 2)

\* C2: for four hex digits whose 16-bit value is a Unicode scalar value, the
\* String rule on "\uh1h2h3h4" yields exactly the one char with that code
\* point ("A" yields 'A').
C2_UnicodeEscape ==
  (op = "String" /\ doc.kind = "hex" /\ cur = StartPos /\ IsScalarValue(HexValue(doc.hex)))
    => (result.ok /\ result.out = <<HexValue(doc.hex)>>)

\* C3: for every number literal the Number rule accepts, the value
\* (integer + fraction / 10^fraction_length) * 10^exponent of the parsed
\* NumberValue, computed exactly, is the decimal value the literal denotes.
C3_ExactValue ==
  (op = "into" /\ doc.kind = "number" /\ cur = StartPos)
    => value = DecimalValue(doc.lit)

\* C4: on a literal [-]int[.digits][(e|E)[+|-]digits] the Number rule consumes
\* the whole literal and yields integer = the signed integer part, fraction =
\* the fractional digits read as an unsigned decimal, fraction_length = their
\* count (leading zeros counted), exponent = the signed exponent; an absent
\* fraction gives (0, 0) and an absent exponent gives 0.
C4_NumberComponents ==
  (op = "Number" /\ doc.kind = "number" /\ cur = StartPos)
    => /\ result.ok
       /\ result.pos.index = Len(input)
       /\ result.out = [integer |-> LitSign(doc.lit) * DigitsValue(doc.lit.int),
                        fraction |-> DigitsValue(doc.lit.frac),
                        fraction_length |-> Len(doc.lit.frac),
                        exponent |-> LitExponent(doc.lit)]

\* C4's case: -12.340e2 parsed to {-12, 340, 3, 2}.
C4_Witness ==
  /\ op = "Number" /\ doc.kind = "number" /\ doc.lit = LitSpec /\ cur = StartPos
  /\ result.ok
  /\ result.out = [integer |-> -12, fraction |-> 340, fraction_length |-> 3, exponent |-> 2]

\* The JsonValue a member value text of the object texts denotes.
MemberValue(v) ==
  IF v = <<"n", "u", "l", "l">> THEN JsonNull
  ELSE JsonNumber([integer |-> DigitsValue(v), fraction |-> 0,
                   fraction_length |-> 0, exponent |-> 0])

\* C5: parsing an object text with members m1..mk (values: numbers and null)
\* yields an Object of exactly k (key, value) pairs in source order, duplicate
\* keys kept and not merged.
C5_MembersInOrder ==
  (op = "Json" /\ doc.kind = "object" /\ cur = StartPos)
    => /\ result.ok
       /\ result.pos.index = Len(input)
       /\ result.out = JsonObject([i \in 1..Len(doc.members) |->
                          <<Str(doc.members[i][1]), MemberValue(doc.members[i][2])>>])

\* C5's case: {"a":1,"a":2} parsed to two entries keyed "a", 1 then 2.
C5_Witness ==
  /\ op = "Json" /\ doc.kind = "object" /\ cur = StartPos
  /\ doc.members = <<<<<<"a">>, <<"1">>>>, <<<<"a">>, <<"2">>>>>>
  /\ result.ok
  /\ Len(result.out.v) = 2
  /\ result.out.v[1][1] = result.out.v[2][1]
  /\ result.out.v[1][2].v.integer = 1
  /\ result.out.v[2][2].v.integer = 2

\* The labels of the rules around a Member.
OuterRules == {"Members", "OneOf", "Object", "Value", "Element"}

\* C6: parsing the truncated input {"a": with the Json rule fails with a
\* trail that holds an entry labelled Member and an entry of an outer rule.
C6_TruncatedTrail ==
  (op = "Json" /\ doc.kind = "text" /\ doc.text = TruncatedObject /\ cur = StartPos)
    => /\ ~result.ok
       /\ "Member" \in Reasons(result.err)
       /\ Reasons(result.err) \cap OuterRules # {}

\* C7: next_range(pos, n) succeeds exactly when at least n chars remain at
\* pos, and then returns the chars and the position of n successive next()
\* calls; so a null that follows non-ASCII text is recognised by Value.
C7_NextRangeAgrees ==
  /\ op = "next_range"
       => /\ result.ok <=> (Len(input) - cur.index >= arg)
          /\ result.ok => /\ result.out = NextN(input, cur, arg).out
                          /\ result.pos = NextN(input, cur, arg).pos
  /\ (op = "Json" /\ doc.kind = "text" /\ doc.text = NullAfterNonAscii /\ cur = StartPos)
       => result.ok

\* C8: no combinator consumes input on a failed branch: OneOf runs both its
\* sub-parsers at its own start position, Value attempts every alternative
\* and lookahead at its start position, and OneOrMore runs each attempt where
\* the one before ended and returns the position before its failing attempt.
C8_NoConsumeOnFailure ==
  op \in ParseOps =>
    \A t \in Nodes(result.tree) :
      /\ t.rule \in {"OneOf", "Value"} =>
           \A i \in 1..Len(t.kids) : t.kids[i].at = t.at
      /\ (t.rule = "OneOf" /\ t.ok /\ Len(t.kids) = 2) => t.end = t.kids[2].end
      /\ (t.rule = "OneOrMore" /\ t.ok) =>
           /\ t.kids[1].at = t.at
           /\ \A i \in 1..(Len(t.kids) - 1) :
                t.kids[i].ok /\ t.kids[i + 1].at = t.kids[i].end
           /\ ~t.kids[Len(t.kids)].ok
           /\ t.end = t.kids[Len(t.kids)].at

\* C8's case: a OneOf whose first sub-parser consumed input and then failed,
\* and whose second sub-parser succeeded.
C8_Witness ==
  /\ op \in ParseOps
  /\ \E t \in Nodes(result.tree) :
       /\ t.rule = "OneOf" /\ Len(t.kids) = 2 /\ t.kids[2].ok
       /\ \E d \in Nodes(t.kids[1]) : d.ok /\ d.end > t.at

\* C9: a rule that fails because a child failed adds its own label to the
\* child's error, outermost last: the trail of a failed Json (Element) parse,
\* which fails only when its Value fails, ends with the label of Element
\* after the label of Value.
C9_TrailLabels ==
  (op = "Json" /\ ~result.ok)
    => /\ result.err[Len(result.err)].reason = "Element"
       /\ "Value" \in Reasons(result.err)

\* C10: every parse ends: each sub-parser run under OneOrMore (a character
\* class, Character, or a Concat that starts with CommaChar) ends after where
\* it started whenever it succeeds, so the loop reaches a failing attempt
\* within the chars left, and a nested Value starts after the Value around
\* it, so the nesting is bounded by the chars left.
C10_Terminates ==
  op \in ParseOps =>
    /\ \A t \in Nodes(result.tree) :
         /\ t.rule # "LoopCut"
         /\ t.rule = "OneOrMore" =>
              /\ Len(t.kids) <= Max({0, Len(input) - t.at}) + 1
              /\ \A i \in 1..Len(t.kids) :
                   /\ t.kids[i].rule \in {"ExpectChar", "Character", "Concat"}
                   /\ t.kids[i].ok => t.kids[i].end > t.kids[i].at
         /\ t.rule = "Value" =>
              \A d \in Nodes(t) \ {t} : d.rule = "Value" => d.at > t.at
    /\ result.ok \in BOOLEAN
    /\ ValueDepth(result.tree) <= Len(input) - cur.index + 1

\* C10's case: a OneOrMore loop that ran twice and then met its failing
\* attempt, in a parse with a Value nested in a Value nested in a Value.
C10_Witness ==
  /\ op = "Json"
  /\ ValueDepth(result.tree) >= 3
  /\ \E t \in Nodes(result.tree) :
       t.rule = "OneOrMore" /\ t.ok /\ Len(t.kids) >= 3
====
